---------------------------- MODULE Spec2Model ----------------------------
(***************************************************************************)
(* Model of the hybrid search engine of github-stars-search                *)
(* (src/src/search/search_engine.py, src/src/cli/commands.py) and of its   *)
(* README chunker (src/src/processor/content_processor.py).                *)
(*                                                                         *)
(* Numbers.  The code works on Python floats.  The model uses exact        *)
(* fixed-point integers: a score, a weight and min_score are counted in    *)
(* hundredths (0.9 is 90, a raw BM25 score of 8.0 is 800), so the product  *)
(* weight * score, the combined score, is counted in ten-thousandths       *)
(* (0.87 is 8700).  Raw keyword scores are drawn as multiples of 0.1, so   *)
(* that the division by 10.0 of the normalisation is exact.                *)
(***************************************************************************)
EXTENDS Integers, Sequences, FiniteSets, TLC

(***************************************************************************)
(* Bounds of the model.                                                    *)
(***************************************************************************)
\* Longest result list handed to _merge_results, or returned by the vector
\* oracle to search.
MaxLen == 2
\* Longest result list handed to _apply_filters.
MaxResults == 3

(***************************************************************************)
(* Program constants of _merge_results.                                    *)
(***************************************************************************)
\* min(result["keyword_score"], 10.0): the cap, in hundredths.
KeywordCap == 1000
\* ... / 10.0: the divisor of the normalisation.
KeywordDiv == 10
\* repo_results[repo_id]["neural_score"] < 0.5: in hundredths.
SnippetThreshold == 50

Min(a, b) == IF a < b THEN a ELSE b

(***************************************************************************)
(* Attribute values of a repository record (JSON values): an integer or a  *)
(* string.  Python compares values of different types as unequal.          *)
(***************************************************************************)
IntVal(n) == [kind |-> "int", n |-> n, s |-> ""]
StrVal(s) == [kind |-> "str", n |-> 0, s |-> s]

(***************************************************************************)
(* The repository store (storage_manager.get_repository).  A record is the *)
(* metadata.json of the repository; a key may be absent from it.           *)
(***************************************************************************)
RepoIds == {1, 2, 3}

Store(repo_id) ==
    CASE repo_id = 1 -> [id |-> IntVal(1), language |-> StrVal("Python"),
                         stargazers_count |-> IntVal(150)]
      [] repo_id = 2 -> [id |-> IntVal(2), language |-> StrVal("JavaScript"),
                         stargazers_count |-> IntVal(50)]
      [] repo_id = 3 -> [id |-> IntVal(3), stargazers_count |-> IntVal(150)]
      [] repo_id = 4 -> [id |-> IntVal(4), language |-> StrVal("Python"),
                         stargazers_count |-> IntVal(50)]

(***************************************************************************)
(* Search results.  The neural results are what embedding_manager.search   *)
(* returns: one record per matching chunk, the repository read from the    *)
(* store.  The k-th hit carries the chunk id and the text of its own       *)
(* chunk, so two hits never share an id or a text.                         *)
(***************************************************************************)
NeuralScores == {40, 90}
KeywordScores == {800, 2000}

NeuralResult(repo_id, score, k) ==
    [id |-> <<"chunk", repo_id, k>>, score |-> score,
     text |-> <<"chunk-text", repo_id, k>>,
     repository |-> Store(repo_id), chunk_type |-> "readme_section"]

KeywordResult(repo_id, score, idx) ==
    [id |-> <<"bm25", repo_id, idx>>, score |-> score,
     text |-> <<"doc-text", idx>>,
     repository |-> Store(repo_id), chunk_type |-> "bm25"]

NeuralListsOver(repos, score_set, maxlen) ==
    UNION { { [k \in 1..n |-> NeuralResult(p[k][1], p[k][2], k)] :
                p \in [1..n -> repos \X score_set] } : n \in 0..maxlen }

NeuralLists(repos, maxlen) == NeuralListsOver(repos, NeuralScores, maxlen)

KeywordLists(repos, maxlen) ==
    UNION { { [k \in 1..n |-> KeywordResult(p[k][1], p[k][2], k)] :
                p \in [1..n -> repos \X KeywordScores] } : n \in 0..maxlen }

(***************************************************************************)
(* SearchEngine._merge_results.  repo_results is a Python dict: it keeps   *)
(* its keys in insertion order, so it is a sequence of entries, each with  *)
(* its key repo_id.                                                        *)
(***************************************************************************)
RepoId(result) == result.repository.id.n

IndexOf(repo_results, repo_id) ==
    IF \E i \in 1..Len(repo_results) : repo_results[i].repo_id = repo_id
    THEN CHOOSE i \in 1..Len(repo_results) : repo_results[i].repo_id = repo_id
    ELSE 0

\* Mutant: no grouping, every neural hit becomes an entry of its own.
MergeNeuralStep_NoGrouping(repo_results, result) ==
    Append(repo_results,
           [repo_id |-> RepoId(result),
            repository |-> result.repository,
            neural_score |-> result.score,
            keyword_score |-> 0,
            text |-> result.text,
            chunk_type |-> result.chunk_type])

\* Mutant: a hit replaces the stored one also when its score is equal.
MergeNeuralStep_KeepsLast(repo_results, result) ==
    LET repo_id == RepoId(result)
        i == IndexOf(repo_results, repo_id)
    IN  IF i = 0
        THEN Append(repo_results,
                    [repo_id |-> repo_id,
                     repository |-> result.repository,
                     neural_score |-> result.score,
                     keyword_score |-> 0,
                     text |-> result.text,
                     chunk_type |-> result.chunk_type])
        ELSE IF result.score >= repo_results[i].neural_score
             THEN [repo_results EXCEPT ![i].neural_score = result.score,
                                       ![i].text = result.text,
                                       ![i].chunk_type = result.chunk_type]
             ELSE repo_results

\* One iteration of "for result in neural_results".
MergeNeuralStep(repo_results, result) ==
    LET repo_id == RepoId(result)
        i == IndexOf(repo_results, repo_id)
    IN  IF i = 0
        THEN Append(repo_results,
                    [repo_id |-> repo_id,
                     repository |-> result.repository,
                     neural_score |-> result.score,
                     keyword_score |-> 0,
                     text |-> result.text,
                     chunk_type |-> result.chunk_type])
        ELSE IF result.score > repo_results[i].neural_score
             THEN [repo_results EXCEPT ![i].neural_score = result.score,
                                       ![i].text = result.text,
                                       ![i].chunk_type = result.chunk_type]
             ELSE repo_results

\* Mutant: a repository without a neural hit gets no entry.
MergeKeywordStep_KnownOnly(repo_results, result) ==
    LET i == IndexOf(repo_results, RepoId(result))
    IN  IF i = 0 THEN repo_results
        ELSE IF result.score > repo_results[i].keyword_score
             THEN [repo_results EXCEPT ![i].keyword_score = result.score]
             ELSE repo_results

\* Mutant: a better keyword hit takes the snippet also at a neural score of
\* exactly 0.5.
MergeKeywordStep_AtThreshold(repo_results, result) ==
    LET repo_id == RepoId(result)
        i == IndexOf(repo_results, repo_id)
    IN  IF i = 0
        THEN Append(repo_results,
                    [repo_id |-> repo_id,
                     repository |-> result.repository,
                     neural_score |-> 0,
                     keyword_score |-> result.score,
                     text |-> result.text,
                     chunk_type |-> result.chunk_type])
        ELSE IF result.score > repo_results[i].keyword_score
             THEN IF repo_results[i].neural_score <= SnippetThreshold
                  THEN [repo_results EXCEPT ![i].keyword_score = result.score,
                                            ![i].text = result.text,
                                            ![i].chunk_type = result.chunk_type]
                  ELSE [repo_results EXCEPT ![i].keyword_score = result.score]
             ELSE repo_results

\* One iteration of "for result in keyword_results".
MergeKeywordStep(repo_results, result) ==
    LET repo_id == RepoId(result)
        i == IndexOf(repo_results, repo_id)
    IN  IF i = 0
        THEN Append(repo_results,
                    [repo_id |-> repo_id,
                     repository |-> result.repository,
                     neural_score |-> 0,
                     keyword_score |-> result.score,
                     text |-> result.text,
                     chunk_type |-> result.chunk_type])
        ELSE IF result.score > repo_results[i].keyword_score
             THEN IF repo_results[i].neural_score < SnippetThreshold
                  THEN [repo_results EXCEPT ![i].keyword_score = result.score,
                                            ![i].text = result.text,
                                            ![i].chunk_type = result.chunk_type]
                  ELSE [repo_results EXCEPT ![i].keyword_score = result.score]
             ELSE repo_results

RECURSIVE MergeNeural(_, _)
MergeNeural(repo_results, neural_results) ==
    IF neural_results = <<>> THEN repo_results
    ELSE MergeNeural(MergeNeuralStep(repo_results, Head(neural_results)),
                     Tail(neural_results))

RECURSIVE MergeKeyword(_, _)
MergeKeyword(repo_results, keyword_results) ==
    IF keyword_results = <<>> THEN repo_results
    ELSE MergeKeyword(MergeKeywordStep(repo_results, Head(keyword_results)),
                      Tail(keyword_results))

\* Mutant: the cap of the normalisation is forgotten.
NormalizeKeyword_NoCap(keyword_score) == keyword_score \div KeywordDiv

\* keyword_score = min(result["keyword_score"], 10.0) / 10.0
NormalizeKeyword(keyword_score) == Min(keyword_score, KeywordCap) \div KeywordDiv

\* Mutant: the two weights are exchanged.
CombinedScore_SwappedWeights(nw, kw, neural_score, keyword_score) ==
    kw * neural_score + nw * keyword_score

\* combined_score, in ten-thousandths.
CombinedScore(nw, kw, neural_score, keyword_score) ==
    nw * neural_score + kw * keyword_score

\* Mutant: the min_score drop is forgotten.
BelowMinScore_Never(combined_score, ms) == FALSE

\* "if combined_score < self.min_score: continue"; min_score is in hundredths.
BelowMinScore(combined_score, ms) == combined_score < ms * 100

MergedResult(nw, kw, entry) ==
    LET keyword_score == NormalizeKeyword(entry.keyword_score)
    IN  [id |-> <<"merged", entry.repo_id>>,
         score |-> CombinedScore(nw, kw, entry.neural_score, keyword_score),
         text |-> entry.text,
         repository |-> entry.repository,
         chunk_type |-> entry.chunk_type,
         neural_score |-> entry.neural_score,
         keyword_score |-> keyword_score]

\* The loop "for repo_id, result in repo_results.items()".
RECURSIVE CombineScores(_, _, _, _)
CombineScores(nw, kw, ms, repo_results) ==
    IF repo_results = <<>> THEN <<>>
    ELSE LET r == MergedResult(nw, kw, Head(repo_results))
             rest == CombineScores(nw, kw, ms, Tail(repo_results))
         IN  IF BelowMinScore(r.score, ms) THEN rest ELSE <<r>> \o rest

\* Mutant: an unstable sort, a result goes before the results of equal score.
RECURSIVE InsertByScore_Unstable(_, _)
InsertByScore_Unstable(sorted, r) ==
    IF sorted = <<>> THEN <<r>>
    ELSE IF Head(sorted).score > r.score
         THEN <<Head(sorted)>> \o InsertByScore_Unstable(Tail(sorted), r)
         ELSE <<r>> \o sorted

\* list.sort(key=score, reverse=True): Python's sort is stable, also with
\* reverse=True, so a result goes after every result with a score >= its own.
RECURSIVE InsertByScore(_, _)
InsertByScore(sorted, r) ==
    IF sorted = <<>> THEN <<r>>
    ELSE IF Head(sorted).score >= r.score
         THEN <<Head(sorted)>> \o InsertByScore(Tail(sorted), r)
         ELSE <<r>> \o sorted

RECURSIVE SortByScoreDesc(_)
SortByScoreDesc(results) ==
    IF results = <<>> THEN <<>>
    ELSE InsertByScore(SortByScoreDesc(SubSeq(results, 1, Len(results) - 1)),
                       results[Len(results)])

_merge_results(nw, kw, ms, neural_results, keyword_results) ==
    LET repo_results == MergeKeyword(MergeNeural(<<>>, neural_results),
                                     keyword_results)
    IN  SortByScoreDesc(CombineScores(nw, kw, ms, repo_results))

(***************************************************************************)
(* SearchEngine._apply_filters.  filters is a Python dict, iterated in     *)
(* insertion order: a sequence of [field, value] with distinct fields.  A  *)
(* filter value is a literal or a dict (a range); a dict has any of the    *)
(* keys of RangeKeys.  Comparing a string attribute with a number bound    *)
(* raises TypeError, which _apply_filters does not catch.                  *)
(***************************************************************************)
RangeKeys == {"min", "max", "gt"}

LiteralFilter(v) == [is_dict |-> FALSE, lit |-> v, keys |-> {}, min |-> 0, max |-> 0]
RangeFilter(keys, lo, hi) ==
    [is_dict |-> TRUE, lit |-> IntVal(0), keys |-> keys, min |-> lo, max |-> hi]

\* The body of "for field, filter_value in filters.items()" for one filter:
\* "pass" (go on with the next filter), "exclude" (include = False; break)
\* or "raise".
FilterStep(repo, f) ==
    IF f.field \in DOMAIN repo
    THEN LET field_value == repo[f.field]
             filter_value == f.value
         IN  IF filter_value.is_dict
             THEN IF "min" \in filter_value.keys /\ field_value.kind # "int"
                  THEN "raise"
                  ELSE IF "min" \in filter_value.keys
                          /\ field_value.n < filter_value.min
                  THEN "exclude"
                  ELSE IF "max" \in filter_value.keys /\ field_value.kind # "int"
                  THEN "raise"
                  ELSE IF "max" \in filter_value.keys
                          /\ field_value.n > filter_value.max
                  THEN "exclude"
                  ELSE "pass"
             ELSE IF field_value # filter_value.lit THEN "exclude" ELSE "pass"
    ELSE "pass"

\* The inner loop for one result: "include", "exclude" or "raise".
RECURSIVE FilterOutcome(_, _)
FilterOutcome(repo, filters) ==
    IF filters = <<>> THEN "include"
    ELSE LET o == FilterStep(repo, Head(filters))
         IN  IF o = "pass" THEN FilterOutcome(repo, Tail(filters)) ELSE o

\* Mutant: a kept result is put in front of the list.
RECURSIVE FilterLoop_Prepend(_, _, _)
FilterLoop_Prepend(filtered_results, results, filters) ==
    IF results = <<>> THEN [raised |-> FALSE, value |-> filtered_results]
    ELSE LET o == FilterOutcome(Head(results).repository, filters)
         IN  IF o = "raise" THEN [raised |-> TRUE, value |-> <<>>]
             ELSE FilterLoop_Prepend(IF o = "include"
                                     THEN <<Head(results)>> \o filtered_results
                                     ELSE filtered_results,
                                     Tail(results), filters)

\* The outer loop: the filtered list so far, or the exception.
RECURSIVE FilterLoop(_, _, _)
FilterLoop(filtered_results, results, filters) ==
    IF results = <<>> THEN [raised |-> FALSE, value |-> filtered_results]
    ELSE LET o == FilterOutcome(Head(results).repository, filters)
         IN  IF o = "raise" THEN [raised |-> TRUE, value |-> <<>>]
             ELSE FilterLoop(IF o = "include"
                             THEN Append(filtered_results, Head(results))
                             ELSE filtered_results,
                             Tail(results), filters)

_apply_filters(results, filters) == FilterLoop(<<>>, results, filters)

(***************************************************************************)
(* The texts of the store (storage_manager.get_repository_readme and the   *)
(* description of the metadata), as the token lists that                   *)
(* _preprocess_text(...).split() makes of them; <<>> is no text.           *)
(***************************************************************************)
Readme(repo_id) ==
    CASE repo_id = 1 -> <<"hybrid", "search">>
      [] repo_id = 2 -> <<>>
      [] repo_id = 3 -> <<"vector", "index">>
      [] repo_id = 4 -> <<>>

Description(repo_id) ==
    CASE repo_id = 1 -> <<"search", "stars">>
      [] repo_id = 2 -> <<"web", "ui">>
      [] repo_id = 3 -> <<>>
      [] repo_id = 4 -> <<>>

\* The keys of get_all_repositories(), in the order of the repository index.
RECURSIVE RepoOrder(_)
RepoOrder(ids) ==
    IF ids = {} THEN <<>>
    ELSE LET m == CHOOSE x \in ids : \A y \in ids : x <= y
         IN  <<m>> \o RepoOrder(ids \ {m})

\* The loop of _initialize_bm25_index over the repositories: the documents
\* and, for each document, the repository that owns it.  A document index
\* is a position of the sequence (the code counts from 0, the model from 1).
RECURSIVE BuildDocuments(_, _)
BuildDocuments(acc, repo_ids) ==
    IF repo_ids = <<>> THEN acc
    ELSE LET repo_id == Head(repo_ids)
             a1 == IF Readme(repo_id) # <<>>
                   THEN [documents |-> Append(acc.documents, Readme(repo_id)),
                         repo_map |-> Append(acc.repo_map, repo_id)]
                   ELSE acc
             a2 == IF Description(repo_id) # <<>>
                   THEN [documents |-> Append(a1.documents, Description(repo_id)),
                         repo_map |-> Append(a1.repo_map, repo_id)]
                   ELSE a1
         IN  BuildDocuments(a2, Tail(repo_ids))

\* The lexical index of an engine: bm25_index (built is FALSE for None),
\* bm25_documents and bm25_repo_map.
NoIndex == [built |-> FALSE, documents |-> <<>>, repo_map |-> <<>>]

\* _initialize_bm25_index: the index after the call, given the index before
\* it and the repositories of the store.
_initialize_bm25_index(index, repos) ==
    IF repos = {} THEN index
    ELSE LET b == BuildDocuments([documents |-> <<>>, repo_map |-> <<>>],
                                 RepoOrder(repos))
         IN  IF b.documents # <<>>
             THEN [built |-> TRUE, documents |-> b.documents,
                   repo_map |-> b.repo_map]
             ELSE index

(***************************************************************************)
(* SearchEngine._keyword_search.  scores is what bm25_index.get_scores     *)
(* returns, one score per document; order is np.argsort(scores)[::-1]: the *)
(* document indices by non-increasing score.  argsort's default sort is    *)
(* not stable, so the order among equal scores is any; it is a function of *)
(* the scores, so the same scores are ordered the same way in every call.  *)
(***************************************************************************)
\* " ".join(self.bm25_documents[idx][:50])
SnippetTokens == 50

Permutations1(n) ==
    { p \in [1..n -> 1..n] : \A i, j \in 1..n : i # j => p[i] # p[j] }

ArgsortDesc(scores) ==
    { p \in Permutations1(Len(scores)) :
        \A i \in 1..(Len(scores) - 1) : scores[p[i]] >= scores[p[i + 1]] }

Truncate(seq, n) == SubSeq(seq, 1, Min(n, Len(seq)))

RECURSIVE KeywordLoop(_, _, _, _, _)
KeywordLoop(index, repos, ms, scores, top_indices) ==
    IF top_indices = <<>> THEN <<>>
    ELSE LET idx == Head(top_indices)
             score == scores[idx]
             repo_id == index.repo_map[idx]
             rest == KeywordLoop(index, repos, ms, scores, Tail(top_indices))
         IN  IF score < ms THEN rest
             ELSE IF repo_id # 0 /\ repo_id \in repos
                  THEN <<[id |-> <<"bm25", repo_id, idx>>,
                          score |-> score,
                          text |-> Truncate(index.documents[idx], SnippetTokens),
                          repository |-> Store(repo_id),
                          chunk_type |-> "bm25"]>> \o rest
                  ELSE rest

\* Mutant: every document is looked at, not only the top limit.
_keyword_search_Unlimited(index, repos, ms, scores, order, limit) ==
    IF ~index.built THEN <<>>
    ELSE KeywordLoop(index, repos, ms, scores, order)

_keyword_search(index, repos, ms, scores, order, limit) ==
    IF ~index.built THEN <<>>
    ELSE KeywordLoop(index, repos, ms, scores, Truncate(order, limit))

(***************************************************************************)
(* SearchEngine.search.  limit is [given, n]: given is FALSE for None.     *)
(* nr is what embedding_manager.search(query, limit * 2) returned, fs the   *)
(* filters.                                                                *)
(* The result is [raised, value]: _apply_filters may raise;                 *)
(* keyword_results is the local variable of that name.                     *)
(***************************************************************************)
NoLimit == [given |-> FALSE, n |-> 0]
Limit(n) == [given |-> TRUE, n |-> n]

EffectiveLimit(limit, mr) == IF limit.given THEN limit.n ELSE mr

\* Mutant: the merger runs whenever hybrid search is enabled.
UseMerger_Always(hybrid, keyword_results) == hybrid

\* "if self.hybrid_enabled and keyword_results": the merger runs.
UseMerger(hybrid, keyword_results) == hybrid /\ keyword_results # <<>>

\* Mutant: the list is cut to the limit before the filters are applied.
search_TruncatesFirst(hybrid, nw, kw, mr, ms, index, repos, nr, scores, order, fs, limit) ==
    LET lim == EffectiveLimit(limit, mr)
        keyword_results ==
            IF hybrid /\ index.built
            THEN _keyword_search(index, repos, ms, scores, order, lim * 2)
            ELSE <<>>
        merged_results ==
            IF UseMerger(hybrid, keyword_results)
            THEN _merge_results(nw, kw, ms, nr, keyword_results)
            ELSE nr
        filtered ==
            IF fs # <<>>
            THEN _apply_filters(Truncate(merged_results, lim), fs)
            ELSE [raised |-> FALSE, value |-> Truncate(merged_results, lim)]
    IN  [raised |-> filtered.raised,
         value |-> IF filtered.raised THEN <<>> ELSE filtered.value,
         keyword_results |-> keyword_results]

search(hybrid, nw, kw, mr, ms, index, repos, nr, scores, order, fs, limit) ==
    LET lim == EffectiveLimit(limit, mr)
        keyword_results ==
            IF hybrid /\ index.built
            THEN _keyword_search(index, repos, ms, scores, order, lim * 2)
            ELSE <<>>
        merged_results ==
            IF UseMerger(hybrid, keyword_results)
            THEN _merge_results(nw, kw, ms, nr, keyword_results)
            ELSE nr
        filtered ==
            IF fs # <<>>
            THEN _apply_filters(merged_results, fs)
            ELSE [raised |-> FALSE, value |-> merged_results]
    IN  [raised |-> filtered.raised,
         value |-> IF filtered.raised THEN <<>>
                   ELSE Truncate(filtered.value, lim),
         keyword_results |-> keyword_results]

(***************************************************************************)
(* ContentProcessor.  A text (a README, the content of a chunk) is a       *)
(* sequence of tokens: words, header markers (a run of '#') and line       *)
(* breaks; two neighbours that are not line breaks are one space apart.    *)
(* str.split() gives the tokens that are not white space, ' '.join gives   *)
(* them back on one line.  A chunk id such as "7-0-hybrid" is the sequence *)
(* of its parts.  The texts of the model have a title word on the line of  *)
(* every header marker.                                                    *)
(***************************************************************************)
Tok(t, n) == [t |-> t, n |-> n]
NL == Tok("\n", 0)
Hash == Tok("#", 0)
Word(s) == Tok(s, 0)
\* The n words that follow the first from words of a text, all different.
Words(from, n) == [i \in 1..n |-> Tok("w", from + i)]

\* content.split()
Split(content) == SelectSeq(content, LAMBDA tok : tok # NL)

\* repo["full_name"], "owner/name": one word.
FullName(repo_id) == Tok("full_name", repo_id)

\* f"Repository: {repo['full_name']}\n\n": the head of a README chunk.
RepositoryContext(repo_id) == <<Word("Repository:"), FullName(repo_id), NL, NL>>

\* f"{repo['id']}-{i}"
ChunkId(repo_id, i) == <<IntVal(repo_id), IntVal(i)>>

(***************************************************************************)
(* ContentProcessor._sliding_window_chunking: windows of chunk_size words  *)
(* starting every chunk_size - overlap words; a window of fewer than       *)
(* overlap words is skipped.  range() raises ValueError for a step of 0    *)
(* and is empty for a negative step.                                       *)
(***************************************************************************)
WindowChunk(repo_id, chunk_words, window_index) ==
    [id |-> ChunkId(repo_id, window_index),
     repo_id |-> repo_id,
     repo_name |-> FullName(repo_id),
     content |-> RepositoryContext(repo_id) \o chunk_words,
     chunk_type |-> "readme_window",
     window_index |-> window_index]

\* Mutant: a window starts where the one before ended.
WindowStep_NoOverlap(chunk_size, overlap) == chunk_size

\* The step of the range: chunk_size - overlap.
WindowStep(chunk_size, overlap) == chunk_size - overlap

\* Mutant: no window is skipped.
TooSmall_Never(chunk_words, overlap) == FALSE

\* "if len(chunk_words) < overlap: continue"
TooSmall(chunk_words, overlap) == Len(chunk_words) < overlap

\* "for i in range(0, len(words), chunk_size - overlap)", from offset i on.
RECURSIVE SlidingLoop(_, _, _, _, _, _)
SlidingLoop(chunks, words, repo_id, chunk_size, overlap, i) ==
    IF i >= Len(words) THEN chunks
    ELSE LET chunk_words == SubSeq(words, i + 1, Min(i + chunk_size, Len(words)))
             step == WindowStep(chunk_size, overlap)
         IN  SlidingLoop(IF TooSmall(chunk_words, overlap) THEN chunks
                         ELSE Append(chunks,
                                     WindowChunk(repo_id, chunk_words, i \div step)),
                         words, repo_id, chunk_size, overlap, i + step)

_sliding_window_chunking(content, repo_id, chunk_size, overlap) ==
    IF WindowStep(chunk_size, overlap) = 0
    THEN [raised |-> TRUE, value |-> <<>>]
    ELSE IF WindowStep(chunk_size, overlap) < 0
    THEN [raised |-> FALSE, value |-> <<>>]
    ELSE [raised |-> FALSE,
          value |-> SlidingLoop(<<>>, Split(content), repo_id, chunk_size,
                                overlap, 0)]

(***************************************************************************)
(* ContentProcessor._semantic_chunking.  The header pattern                *)
(* (^|\n)#+\s+.+?(?=\n#+\s+|\Z) matches from a marker at the start of the  *)
(* text or of a line up to the next such line.  The pattern has one group, *)
(* (^|\n), and re.findall returns what the group matched, not the match:   *)
(* a section is "" for a header at the start of the text and "\n" for any  *)
(* other.                                                                  *)
(***************************************************************************)
\* A match of the header pattern starts with the marker at position p.
IsHeaderAt(content, p) ==
    /\ content[p] = Hash
    /\ p = 1 \/ content[p - 1] = NL
    /\ p < Len(content)
    /\ content[p + 1] = NL => p + 1 < Len(content)

HeaderStarts(content) == { p \in 1..Len(content) : IsHeaderAt(content, p) }

\* What re.findall returns for the match whose marker is at p: group 1.
Captured(content, p) == IF p = 1 THEN <<>> ELSE <<NL>>

\* re.findall(header_pattern, content, re.DOTALL), for the markers from p on.
RECURSIVE FindSections(_, _)
FindSections(content, p) ==
    IF p > Len(content) THEN <<>>
    ELSE IF p \in HeaderStarts(content)
    THEN <<Captured(content, p)>> \o FindSections(content, p + 1)
    ELSE FindSections(content, p + 1)

\* section.strip()
RECURSIVE Strip(_)
Strip(text) ==
    IF text = <<>> THEN <<>>
    ELSE IF Head(text) = NL THEN Strip(Tail(text))
    ELSE IF text[Len(text)] = NL THEN Strip(SubSeq(text, 1, Len(text) - 1))
    ELSE text

SectionChunk(repo_id, section, section_index) ==
    [id |-> ChunkId(repo_id, section_index),
     repo_id |-> repo_id,
     repo_name |-> FullName(repo_id),
     content |-> RepositoryContext(repo_id) \o Strip(section),
     chunk_type |-> "readme_section",
     section_index |-> section_index]

_semantic_chunking(content, repo_id, chunk_size, overlap) ==
    LET sections == FindSections(content, 1)
    IN  IF sections = <<>>
        THEN _sliding_window_chunking(content, repo_id, chunk_size, overlap)
        ELSE [raised |-> FALSE,
              value |-> [i \in 1..Len(sections) |->
                            SectionChunk(repo_id, sections[i], i - 1)]]

(***************************************************************************)
(* ContentProcessor._hybrid_chunking.                                      *)
(***************************************************************************)
\* The position of the first "\n\n" of a text, 0 if it has none.
RECURSIVE BlankAt(_, _)
BlankAt(text, p) ==
    IF p >= Len(text) THEN 0
    ELSE IF text[p] = NL /\ text[p + 1] = NL THEN p
    ELSE BlankAt(text, p + 1)

\* chunk_content.split("\n\n")[0]
BeforeBlank(text) ==
    IF BlankAt(text, 1) = 0 THEN text ELSE SubSeq(text, 1, BlankAt(text, 1) - 1)

\* "\n\n".join(chunk_content.split("\n\n")[1:])
AfterBlank(text) ==
    IF BlankAt(text, 1) = 0 THEN <<>>
    ELSE SubSeq(text, BlankAt(text, 1) + 2, Len(text))

\* "Large Test Repository" in content
LargeTitle == <<Word("Large"), Word("Test"), Word("Repository")>>
HasLargeTitle(content) ==
    \E p \in 1..Len(content) :
        p + 2 <= Len(content) /\ SubSeq(content, p, p + 2) = LargeTitle

\* Mutant: the fallback leaves the type of the chunk as it was.
AsHybrid_NotRelabelled(chunk) ==
    [id |-> chunk.id,
     repo_id |-> chunk.repo_id,
     repo_name |-> chunk.repo_name,
     content |-> chunk.content,
     chunk_type |-> chunk.chunk_type,
     window_index |-> chunk.window_index,
     section_index |-> 0]

\* The chunks of the sliding window fallback, made hybrid chunks of section 0.
AsHybrid(chunk) ==
    [id |-> chunk.id,
     repo_id |-> chunk.repo_id,
     repo_name |-> chunk.repo_name,
     content |-> chunk.content,
     chunk_type |-> "readme_hybrid",
     window_index |-> chunk.window_index,
     section_index |-> 0]

\* f"{repo['id']}-{i}-{j // (chunk_size - overlap)}"
SubChunkId(repo_id, i, window_index) ==
    <<IntVal(repo_id), IntVal(i), IntVal(window_index)>>

SubChunk(repo_id, repo_context, chunk_words, i, window_index) ==
    [id |-> SubChunkId(repo_id, i, window_index),
     repo_id |-> repo_id,
     repo_name |-> FullName(repo_id),
     content |-> repo_context \o <<NL, NL>> \o chunk_words,
     chunk_type |-> "readme_hybrid",
     section_index |-> i,
     window_index |-> window_index]

\* "for j in range(0, len(words), chunk_size - overlap)" for section i, from
\* offset j on: the sub-chunks of the section.
RECURSIVE SubChunkLoop(_, _, _, _, _, _, _, _)
SubChunkLoop(sub_chunks, words, repo_id, repo_context, chunk_size, overlap, i, j) ==
    IF j >= Len(words) THEN sub_chunks
    ELSE LET chunk_words == SubSeq(words, j + 1, Min(j + chunk_size, Len(words)))
             step == WindowStep(chunk_size, overlap)
         IN  SubChunkLoop(IF TooSmall(chunk_words, overlap) THEN sub_chunks
                          ELSE Append(sub_chunks,
                                      SubChunk(repo_id, repo_context, chunk_words,
                                               i, j \div step)),
                          words, repo_id, repo_context, chunk_size, overlap, i,
                          j + step)

\* "if len(chunk_content.split()) > self.max_chunk_size"
TooLarge(chunk_content, chunk_size) == Len(Split(chunk_content)) > chunk_size

\* "for i, chunk in enumerate(semantic_chunks)", from chunk i (0-based) on.
RECURSIVE SectionLoop(_, _, _, _, _, _)
SectionLoop(out, semantic_chunks, repo_id, chunk_size, overlap, i) ==
    IF i >= Len(semantic_chunks) \/ out.raised THEN out
    ELSE LET chunk == semantic_chunks[i + 1]
             sub_chunks ==
                 IF WindowStep(chunk_size, overlap) <= 0 THEN <<>>
                 ELSE SubChunkLoop(<<>>, Split(AfterBlank(chunk.content)), repo_id,
                                   BeforeBlank(chunk.content), chunk_size,
                                   overlap, i, 0)
         IN  SectionLoop(
                 IF ~TooLarge(chunk.content, chunk_size)
                 THEN [out EXCEPT !.final_chunks = Append(@, chunk)]
                 ELSE IF WindowStep(chunk_size, overlap) = 0
                 THEN [out EXCEPT !.raised = TRUE]
                 ELSE [out EXCEPT !.final_chunks = @ \o sub_chunks,
                                  !.has_hybrid_chunks = @ \/ sub_chunks # <<>>],
                 semantic_chunks, repo_id, chunk_size, overlap, i + 1)

\* Mutant: the added chunk takes the id of the first section.
ForcedChunkId_FirstSection(repo_id) == ChunkId(repo_id, 0)

\* f"{repo['id']}-0-hybrid"
ForcedChunkId(repo_id) == <<IntVal(repo_id), IntVal(0), StrVal("hybrid")>>

\* The chunk the special case for "Large Test Repository" adds.
ForcedChunk(repo_id, chunk) ==
    [id |-> ForcedChunkId(repo_id),
     repo_id |-> repo_id,
     repo_name |-> FullName(repo_id),
     content |-> chunk.content,
     chunk_type |-> "readme_hybrid",
     section_index |-> 0,
     window_index |-> 0]

_hybrid_chunking(content, repo_id, chunk_size, overlap) ==
    LET semantic == _semantic_chunking(content, repo_id, chunk_size, overlap)
        semantic_chunks == semantic.value
        out == SectionLoop([final_chunks |-> <<>>, has_hybrid_chunks |-> FALSE,
                            raised |-> FALSE],
                           semantic_chunks, repo_id, chunk_size, overlap, 0)
    IN  IF semantic.raised THEN semantic
        ELSE IF semantic_chunks # <<>>
                /\ semantic_chunks[1].chunk_type = "readme_window"
        THEN [raised |-> FALSE,
              value |-> [c \in 1..Len(semantic_chunks) |->
                            AsHybrid(semantic_chunks[c])]]
        ELSE IF out.raised THEN [raised |-> TRUE, value |-> <<>>]
        ELSE IF HasLargeTitle(content) /\ ~out.has_hybrid_chunks
                /\ Len(semantic_chunks) > 0
        THEN [raised |-> FALSE,
              value |-> Append(out.final_chunks,
                               ForcedChunk(repo_id, semantic_chunks[1]))]
        ELSE [raised |-> FALSE, value |-> out.final_chunks]

(***************************************************************************)
(* ContentProcessor.process_readme and _clean_content.  len(content) and   *)
(* content[:n] count characters: the model takes every word and marker as  *)
(* one character wide, so the characters of a text are its tokens and the  *)
(* spaces between them.  markdown and html2text keep the words and the     *)
(* markers of the texts of the model; what _clean_content adds is the      *)
(* substitution of ' ' for every run of white space, line breaks included. *)
(***************************************************************************)
SP == Tok(" ", 0)

\* The characters of a text.
RECURSIVE Chars(_)
Chars(text) ==
    IF Len(text) <= 1 THEN text
    ELSE IF text[1] # NL /\ text[2] # NL
    THEN <<text[1], SP>> \o Chars(Tail(text))
    ELSE <<text[1]>> \o Chars(Tail(text))

\* Mutant: the README is never cut.
Truncated_Never(content, max_size) == content

\* content[:max_readme_size] if len(content) > max_readme_size
Truncated(content, max_size) ==
    IF Len(Chars(content)) > max_size
    THEN SelectSeq(SubSeq(Chars(content), 1, max_size), LAMBDA tok : tok # SP)
    ELSE content

\* re.sub(r'\s+', ' ', text)
_clean_content(content) == SelectSeq(content, LAMBDA tok : tok # NL)

process_readme(content, repo_id, max_size, strategy, chunk_size, overlap) ==
    LET clean_content == _clean_content(Truncated(content, max_size))
    IN  IF strategy = "semantic"
        THEN _semantic_chunking(clean_content, repo_id, chunk_size, overlap)
        ELSE IF strategy = "sliding"
        THEN _sliding_window_chunking(clean_content, repo_id, chunk_size, overlap)
        ELSE _hybrid_chunking(clean_content, repo_id, chunk_size, overlap)

(***************************************************************************)
(* ContentProcessor.process_description: the chunk of the description, or  *)
(* None (here the empty list) for a repository without one.                *)
(***************************************************************************)
\* repo.get("description")
DescriptionText(repo_id) ==
    [i \in 1..Len(Description(repo_id)) |-> Word(Description(repo_id)[i])]

\* f"{repo['id']}-description"
DescriptionId(repo_id) == <<IntVal(repo_id), StrVal("description")>>

\* Mutant: the description follows the context after a blank line.
DescriptionContent_BlankLine(repo_id) ==
    RepositoryContext(repo_id) \o <<Word("Description:")>>
        \o DescriptionText(repo_id)

\* f"Repository: {repo['full_name']}\nDescription: {description}"
DescriptionContent(repo_id) ==
    <<Word("Repository:"), FullName(repo_id), NL, Word("Description:")>>
        \o DescriptionText(repo_id)

process_description(repo_id) ==
    IF DescriptionText(repo_id) = <<>> THEN <<>>
    ELSE << [id |-> DescriptionId(repo_id),
             repo_id |-> repo_id,
             repo_name |-> FullName(repo_id),
             content |-> DescriptionContent(repo_id),
             chunk_type |-> "description"] >>

(***************************************************************************)
(* The state: the fields of the SearchEngine and of the ContentProcessor,   *)
(* the repositories of the store, and one call: the operation op, its      *)
(* arguments (content and repo for the ContentProcessor), what its         *)
(* collaborators return (neural_results, scores, order), its position pc   *)
(* ("call" before it runs, "done" after it) and its result (raised, ret).  *)
(* The caller may repeat the call with the same arguments: calls counts    *)
(* the calls made and prev is what the one before returned.  commands is   *)
(* the weights each search_command call so far was given.                  *)
(***************************************************************************)
VARIABLES
    hybrid_enabled, neural_weight, keyword_weight, max_results, min_score,
    bm25_index, bm25_documents, bm25_repo_map,
    repositories,
    max_readme_size, chunk_strategy, max_chunk_size, chunk_overlap,
    content, repo,
    op, pc, neural_results, keyword_results, results, filters, limit, scores,
    order, raised, ret,
    calls, prev,
    commands

engine == <<hybrid_enabled, neural_weight, keyword_weight, max_results,
            min_score, bm25_index, bm25_documents, bm25_repo_map>>
processor == <<max_readme_size, chunk_strategy, max_chunk_size, chunk_overlap>>
args == <<op, neural_results, results, filters, limit, scores, order,
          content, repo, commands>>
vars == <<engine, repositories, processor, args, pc, keyword_results, raised,
          ret, calls, prev>>


Index == [built |-> bm25_index, documents |-> bm25_documents,
          repo_map |-> bm25_repo_map]

\* The configurations the engines of the model are constructed with.
Config(h, nw, kw, mr, ms) ==
    [hybrid_enabled |-> h, neural_weight |-> nw, keyword_weight |-> kw,
     max_results |-> mr, min_score |-> ms]

MergeConfigs == { Config(TRUE, 70, 30, 20, 20), Config(TRUE, 70, 30, 20, 90),
                  Config(TRUE, 60, 30, 20, 0) }
SearchConfigs == { Config(TRUE, 70, 30, 1, 50), Config(TRUE, 60, 30, 2, 0),
                   Config(FALSE, 70, 30, 2, 20) }
SearchStores == { {}, {1, 2} }

\* SearchEngine.__init__.
EngineInit(configs, stores) ==
    \E config \in configs, repos \in stores :
        LET index == IF config.hybrid_enabled
                     THEN _initialize_bm25_index(NoIndex, repos)
                     ELSE NoIndex
        IN  /\ hybrid_enabled = config.hybrid_enabled
            /\ neural_weight = config.neural_weight
            /\ keyword_weight = config.keyword_weight
            /\ max_results = config.max_results
            /\ min_score = config.min_score
            /\ bm25_index = index.built
            /\ bm25_documents = index.documents
            /\ bm25_repo_map = index.repo_map
            /\ repositories = repos

\* The filter specifications of the model.
FilterFields == {"language", "stargazers_count"}
FilterValues ==
    { LiteralFilter(StrVal("Python")), LiteralFilter(IntVal(150)),
      RangeFilter({"min"}, 100, 0), RangeFilter({"max"}, 0, 100),
      RangeFilter({"min", "max"}, 100, 200), RangeFilter({}, 0, 0),
      RangeFilter({"gt"}, 0, 0) }
FilterItems == { [field |-> f, value |-> v] : f \in FilterFields, v \in FilterValues }
FilterSpecs ==
    {<<>>} \cup { <<x>> : x \in FilterItems }
           \cup { p \in FilterItems \X FilterItems : p[1].field # p[2].field }

\* The filters search_command builds from min_stars and language.
SearchFilters ==
    { <<>>,
      <<[field |-> "stargazers_count", value |-> RangeFilter({"min"}, 100, 0)]>>,
      <<[field |-> "language", value |-> LiteralFilter(StrVal("Python"))]>>,
      <<[field |-> "stargazers_count", value |-> RangeFilter({"min"}, 100, 0)],
        [field |-> "language", value |-> LiteralFilter(StrVal("Python"))]>> }
LimitArgs == { NoLimit, Limit(0), Limit(1), Limit(2) }
BM25Scores == {0, 400, 800}

\* The configurations the processors of the model are constructed with.
ContentConfig(size, strategy, chunk_size, overlap) ==
    [max_readme_size |-> size, chunk_strategy |-> strategy,
     max_chunk_size |-> chunk_size, chunk_overlap |-> overlap]

\* ContentProcessor({}): the defaults.
DefaultContentConfig == ContentConfig(500000, "hybrid", 512, 50)

\* ContentProcessor.__init__.
ProcessorInit(configs) ==
    \E config \in configs :
        /\ max_readme_size = config.max_readme_size
        /\ chunk_strategy = config.chunk_strategy
        /\ max_chunk_size = config.max_chunk_size
        /\ chunk_overlap = config.chunk_overlap

\* The call is not one of the ContentProcessor.
NoContent ==
    /\ ProcessorInit({DefaultContentConfig})
    /\ content = <<>>
    /\ repo = 0

\* No call has returned yet.
NoCall == [raised |-> FALSE, ret |-> <<>>]

\* Nothing has run yet: the first call is pending.
NotRun ==
    /\ pc = "call"
    /\ raised = FALSE
    /\ ret = <<>>
    /\ calls = 1
    /\ prev = NoCall
    /\ commands = <<>>

\* A pending call of _merge_results(neural_results, keyword_results).
InitMerge ==
    /\ EngineInit(MergeConfigs, {RepoIds})
    /\ op = "merge"
    /\ neural_results \in NeuralLists(RepoIds, MaxLen)
    /\ keyword_results \in KeywordLists(RepoIds, MaxLen)
    /\ results = <<>>
    /\ filters = <<>>
    /\ limit = NoLimit
    /\ scores = <<>>
    /\ order = <<>>
    /\ NoContent
    /\ NotRun

\* A pending call of _merge_results whose neural scores lie below, at and
\* above the 0.5 of the snippet rule.
SnippetScores == {40, SnippetThreshold, 90}
InitSnippet ==
    /\ EngineInit({Config(TRUE, 70, 30, 20, 0)}, {RepoIds})
    /\ op = "merge"
    /\ neural_results \in NeuralListsOver({1, 2}, SnippetScores, MaxLen)
    /\ keyword_results \in KeywordLists({1, 2}, MaxLen)
    /\ results = <<>>
    /\ filters = <<>>
    /\ limit = NoLimit
    /\ scores = <<>>
    /\ order = <<>>
    /\ NoContent
    /\ NotRun

\* A pending call of _apply_filters(results, filters).
InitFilter ==
    /\ EngineInit({Config(TRUE, 70, 30, 20, 20)}, {RepoIds})
    /\ op = "filter"
    /\ neural_results = <<>>
    /\ keyword_results = <<>>
    /\ results \in NeuralLists(RepoIds, MaxResults)
    /\ filters \in FilterSpecs
    /\ limit = NoLimit
    /\ scores = <<>>
    /\ order = <<>>
    /\ NoContent
    /\ NotRun

\* A pending call of search(query, filters, limit).  The query decides only
\* what the vector oracle returns for it (neural_results, at most limit * 2
\* hits on stored repositories) and what the BM25 index scores (scores).
InitSearch ==
    /\ EngineInit(SearchConfigs, SearchStores)
    /\ op = "search"
    /\ limit \in LimitArgs
    /\ neural_results \in
         NeuralLists(repositories,
                     Min(MaxLen, 2 * EffectiveLimit(limit, max_results)))
    /\ keyword_results = <<>>
    /\ results = <<>>
    /\ filters \in SearchFilters
    /\ scores \in [1..Len(bm25_documents) -> BM25Scores]
    /\ order \in ArgsortDesc(scores)
    /\ NoContent
    /\ NotRun

\* _merge_results runs.
MergeResults ==
    /\ pc = "call" /\ op = "merge"
    /\ pc' = "done"
    /\ ret' = _merge_results(neural_weight, keyword_weight, min_score,
                             neural_results, keyword_results)
    /\ raised' = FALSE
    /\ UNCHANGED <<engine, repositories, processor, args, keyword_results, calls,
                   prev>>

\* _apply_filters runs.
ApplyFilters ==
    /\ pc = "call" /\ op = "filter"
    /\ pc' = "done"
    /\ LET out == _apply_filters(results, filters)
       IN  raised' = out.raised /\ ret' = out.value
    /\ UNCHANGED <<engine, repositories, processor, args, keyword_results, calls,
                   prev>>

\* Mutant: search keeps the doubled limit of the call in self.max_results.
Search_KeepsLimit ==
    /\ pc = "call" /\ op = "search"
    /\ pc' = "done"
    /\ LET out == search(hybrid_enabled, neural_weight, keyword_weight,
                         max_results, min_score, Index, repositories,
                         neural_results, scores, order, filters, limit)
       IN  /\ keyword_results' = out.keyword_results
           /\ raised' = out.raised
           /\ ret' = out.value
    /\ max_results' = 2 * EffectiveLimit(limit, max_results)
    /\ UNCHANGED <<hybrid_enabled, neural_weight, keyword_weight, min_score,
                   bm25_index, bm25_documents, bm25_repo_map, repositories,
                   processor, args, calls, prev>>

\* search runs.  keyword_results is its local variable.
Search ==
    /\ pc = "call" /\ op = "search"
    /\ pc' = "done"
    /\ LET out == search(hybrid_enabled, neural_weight, keyword_weight,
                         max_results, min_score, Index, repositories,
                         neural_results, scores, order, filters, limit)
       IN  /\ keyword_results' = out.keyword_results
           /\ raised' = out.raised
           /\ ret' = out.value
    /\ UNCHANGED <<engine, repositories, processor, args, calls, prev>>

(***************************************************************************)
(* The calls of the ContentProcessor.  The READMEs of the model start with *)
(* or without an empty line, then have some words before the first header  *)
(* or none, then sections: a header line and a body of some words.         *)
(***************************************************************************)
\* The most words before the first header, and in the body of a section.
MaxWords == 6
\* The most sections of a README.
MaxSections == 2
\* The largest max_chunk_size.
MaxChunkSize == 4

Leads == { <<>>, <<NL>> }
SectionSizes == { 1, 2, MaxWords }
SizeLists == UNION { [1..n -> SectionSizes] : n \in 1..MaxSections }

\* The title of the i-th header; the first is Install or the title that the
\* special case of _hybrid_chunking looks for.
FirstTitles == { <<Word("Install")>>, LargeTitle }
Title(i) == IF i = 2 THEN <<Word("Usage")>> ELSE <<Tok("title", i)>>

\* The words of a README before its first header, on one line.
Preamble(n) == IF n = 0 THEN <<>> ELSE Words(0, n) \o <<NL>>

\* The sections from the i-th on, their words numbered after from.
RECURSIVE SectionsText(_, _, _, _)
SectionsText(sizes, first_title, i, from) ==
    IF sizes = <<>> THEN <<>>
    ELSE <<Hash>> \o (IF i = 1 THEN first_title ELSE Title(i)) \o <<NL>>
            \o Words(from, Head(sizes)) \o <<NL>>
            \o SectionsText(Tail(sizes), first_title, i + 1, from + Head(sizes))

Readmes ==
    { lead \o Preamble(n) : lead \in Leads, n \in 0..MaxWords }
        \cup { lead \o Preamble(n) \o SectionsText(sizes, t, 1, n) :
                 lead \in Leads, n \in {0, 1}, t \in FirstTitles,
                 sizes \in SizeLists }

\* The repositories whose READMEs are chunked.
ChunkRepos == { 1, 2 }

\* max_chunk_size and chunk_overlap, the overlap below the chunk size.
WindowSizes ==
    { p \in (1..MaxChunkSize) \X (0..MaxChunkSize) : p[2] < p[1] }
WindowConfigs ==
    { ContentConfig(500000, "hybrid", p[1], p[2]) : p \in WindowSizes }

\* The configurations of process_readme: every strategy, with a
\* max_readme_size that cuts the longer READMEs and with the default.
ReadmeSizes == { 8, 500000 }
ReadmeConfigs ==
    { ContentConfig(size, strategy, p[1], p[2]) :
        size \in ReadmeSizes, strategy \in {"semantic", "sliding", "hybrid"},
        p \in WindowSizes }

\* The call is not one of the SearchEngine.
NoSearch ==
    /\ EngineInit({Config(TRUE, 70, 30, 20, 20)}, {{}})
    /\ neural_results = <<>>
    /\ keyword_results = <<>>
    /\ results = <<>>
    /\ filters = <<>>
    /\ limit = NoLimit
    /\ scores = <<>>
    /\ order = <<>>

\* A pending call of a chunking method with (content, repo).
InitChunking(method, configs) ==
    /\ NoSearch
    /\ ProcessorInit(configs)
    /\ op = method
    /\ content \in Readmes
    /\ repo \in ChunkRepos
    /\ NotRun

InitSliding == InitChunking("_sliding_window_chunking", WindowConfigs)
InitSemantic == InitChunking("_semantic_chunking", WindowConfigs)
InitHybrid == InitChunking("_hybrid_chunking", WindowConfigs)
InitReadme == InitChunking("process_readme", ReadmeConfigs)

\* A pending call of process_description(repo).
InitDescription ==
    /\ NoSearch
    /\ ProcessorInit({DefaultContentConfig})
    /\ op = "process_description"
    /\ content = <<>>
    /\ repo \in RepoIds
    /\ NotRun

\* Mutant: every id ends with the number of the call that made the chunk.
Returns_CallNumber(out) ==
    /\ pc' = "done"
    /\ raised' = out.raised
    /\ ret' = [i \in 1..Len(out.value) |->
                  [out.value[i] EXCEPT !.id = @ \o <<IntVal(calls)>>]]
    /\ UNCHANGED <<engine, repositories, processor, args, keyword_results, calls,
                   prev>>

\* A chunking method returns (or raises).
Returns(out) ==
    /\ pc' = "done"
    /\ raised' = out.raised
    /\ ret' = out.value
    /\ UNCHANGED <<engine, repositories, processor, args, keyword_results, calls,
                   prev>>

\* _sliding_window_chunking runs.
SlidingWindowChunking ==
    /\ pc = "call" /\ op = "_sliding_window_chunking"
    /\ Returns(_sliding_window_chunking(content, repo, max_chunk_size,
                                        chunk_overlap))

\* _semantic_chunking runs.
SemanticChunking ==
    /\ pc = "call" /\ op = "_semantic_chunking"
    /\ Returns(_semantic_chunking(content, repo, max_chunk_size, chunk_overlap))

\* _hybrid_chunking runs.
HybridChunking ==
    /\ pc = "call" /\ op = "_hybrid_chunking"
    /\ Returns(_hybrid_chunking(content, repo, max_chunk_size, chunk_overlap))

\* process_readme runs.
ProcessReadme ==
    /\ pc = "call" /\ op = "process_readme"
    /\ Returns(process_readme(content, repo, max_readme_size, chunk_strategy,
                              max_chunk_size, chunk_overlap))

\* process_description runs.
ProcessDescription ==
    /\ pc = "call" /\ op = "process_description"
    /\ Returns([raised |-> FALSE, value |-> process_description(repo)])

\* The number of times the caller makes the same call.
MaxCalls == 2

\* The caller makes the call again, with the same arguments and against the
\* same collaborators.
CallAgain ==
    /\ pc = "done" /\ calls < MaxCalls
    /\ pc' = "call"
    /\ calls' = calls + 1
    /\ prev' = [raised |-> raised, ret |-> ret]
    /\ raised' = FALSE
    /\ ret' = <<>>
    /\ UNCHANGED <<engine, repositories, processor, args, keyword_results>>

(***************************************************************************)
(* The lexical index over the life of an engine.  The constructor builds   *)
(* it once; afterwards the store may change and the index be built again,  *)
(* and the index is queried by _keyword_search.  Repository 4 has neither  *)
(* a README nor a description.                                             *)
(***************************************************************************)
IndexConfigs == { Config(TRUE, 70, 30, 2, 20), Config(TRUE, 70, 30, 2, 500) }
IndexStores == { {}, {1, 2}, {3}, {4} }

\* The limit argument of _keyword_search.
QueryLimits == 0..MaxResults

\* An engine just constructed: __init__ has built the index.
InitIndex ==
    /\ EngineInit(IndexConfigs, IndexStores)
    /\ op = "_initialize_bm25_index"
    /\ pc = "done"
    /\ neural_results = <<>>
    /\ keyword_results = <<>>
    /\ results = <<>>
    /\ filters = <<>>
    /\ limit = NoLimit
    /\ scores = <<>>
    /\ order = <<>>
    /\ NoContent
    /\ raised = FALSE
    /\ ret = <<>>
    /\ calls = 1
    /\ prev = NoCall
    /\ commands = <<>>

\* The store comes to hold other repositories and the index is to be built
\* again; calls counts the builds.
StoreChanges ==
    /\ pc = "done" /\ op \in {"_initialize_bm25_index", "_keyword_search"}
    /\ calls < MaxCalls
    /\ repositories' \in IndexStores \ {repositories}
    /\ op' = "_initialize_bm25_index"
    /\ pc' = "call"
    /\ calls' = calls + 1
    /\ raised' = FALSE
    /\ ret' = <<>>
    /\ UNCHANGED <<engine, processor, neural_results, results, filters, limit,
                   scores, order, content, repo, keyword_results, prev,
                   commands>>

\* _initialize_bm25_index runs: it catches what its body raises.
InitializeBM25Index ==
    /\ pc = "call" /\ op = "_initialize_bm25_index"
    /\ pc' = "done"
    /\ LET index == _initialize_bm25_index(Index, repositories)
       IN  /\ bm25_index' = index.built
           /\ bm25_documents' = index.documents
           /\ bm25_repo_map' = index.repo_map
    /\ raised' = FALSE
    /\ ret' = <<>>
    /\ UNCHANGED <<hybrid_enabled, neural_weight, keyword_weight, max_results,
                   min_score, repositories, processor, args, keyword_results,
                   calls, prev>>

\* _keyword_search(query, limit) runs on the index as it is: the query
\* decides the scores, one per indexed document.
KeywordSearch ==
    /\ pc = "done" /\ op \in {"_initialize_bm25_index", "_keyword_search"}
    /\ \E sc \in [1..Len(bm25_documents) -> BM25Scores], n \in QueryLimits :
         \E ord \in ArgsortDesc(sc) :
            /\ scores' = sc
            /\ order' = ord
            /\ limit' = Limit(n)
            /\ ret' = _keyword_search(Index, repositories, min_score, sc, ord, n)
    /\ op' = "_keyword_search"
    /\ raised' = FALSE
    /\ UNCHANGED <<engine, repositories, processor, neural_results, results,
                   filters, content, repo, pc, keyword_results, calls, prev,
                   commands>>

NextIndex == StoreChanges \/ InitializeBM25Index \/ KeywordSearch
SpecIndex == InitIndex /\ [][NextIndex]_vars

(***************************************************************************)
(* search_command, called again and again on the engine the command line   *)
(* shares.  A weight argument is [given, n]: given is FALSE for None.       *)
(***************************************************************************)
NoWeight == [given |-> FALSE, n |-> 0]
Weight(n) == [given |-> TRUE, n |-> n]

\* The configuration of the engine and the arguments of the calls.
CommandConfig == Config(TRUE, 70, 30, 2, 0)
NeuralWeightArgs == { NoWeight, Weight(20), Weight(90) }
KeywordWeightArgs == { NoWeight, Weight(80) }
CommandLimits == { NoLimit, Limit(1) }

\* The filters of a call that is given min_stars, language or neither.
CommandFilters == { fs \in SearchFilters : Len(fs) <= 1 }

\* What the collaborators return for the queries: at most one neural hit,
\* and the BM25 scores of the three documents.
CommandNeural ==
    { <<>>, <<NeuralResult(1, 90, 1)>>, <<NeuralResult(2, 40, 1)>> }
CommandScores == { <<800, 400, 0>> }

\* An engine just constructed; no command has run.
InitCommand ==
    /\ EngineInit({CommandConfig}, {{1, 2}})
    /\ op = "search_command"
    /\ neural_results = <<>>
    /\ keyword_results = <<>>
    /\ results = <<>>
    /\ filters = <<>>
    /\ limit = NoLimit
    /\ scores = <<>>
    /\ order = <<>>
    /\ NoContent
    /\ NotRun

\* Mutant: the weights given apply to this call only, the engine keeps its own.
SearchCommand_Restores ==
    /\ op = "search_command"
    /\ pc = "call" \/ calls < MaxCalls
    /\ \E nwa \in NeuralWeightArgs, kwa \in KeywordWeightArgs,
          nr \in CommandNeural, sc \in CommandScores, fs \in CommandFilters,
          lim \in CommandLimits :
         \E ord \in ArgsortDesc(sc) :
            LET nw == IF nwa.given THEN nwa.n ELSE neural_weight
                kw == IF kwa.given THEN kwa.n ELSE keyword_weight
                out == search(hybrid_enabled, nw, kw, max_results, min_score,
                              Index, repositories, nr, sc, ord, fs, lim)
            IN  /\ neural_results' = nr
                /\ scores' = sc
                /\ order' = ord
                /\ filters' = fs
                /\ limit' = lim
                /\ keyword_results' = out.keyword_results
                /\ raised' = out.raised
                /\ ret' = out.value
                /\ commands' = Append(commands, [neural_weight |-> nwa,
                                                 keyword_weight |-> kwa])
    /\ pc' = "done"
    /\ calls' = IF pc = "call" THEN calls ELSE calls + 1
    /\ UNCHANGED <<engine, repositories, processor, op, results, content,
                   repo, prev>>

\* search_command(search_engine, query, neural_weight, keyword_weight,
\* min_stars, language, limit) runs: it sets the weights given on the
\* engine, builds the filters and searches.
SearchCommand ==
    /\ op = "search_command"
    /\ pc = "call" \/ calls < MaxCalls
    /\ \E nwa \in NeuralWeightArgs, kwa \in KeywordWeightArgs,
          nr \in CommandNeural, sc \in CommandScores, fs \in CommandFilters,
          lim \in CommandLimits :
         \E ord \in ArgsortDesc(sc) :
            LET nw == IF nwa.given THEN nwa.n ELSE neural_weight
                kw == IF kwa.given THEN kwa.n ELSE keyword_weight
                out == search(hybrid_enabled, nw, kw, max_results, min_score,
                              Index, repositories, nr, sc, ord, fs, lim)
            IN  /\ neural_weight' = nw
                /\ keyword_weight' = kw
                /\ neural_results' = nr
                /\ scores' = sc
                /\ order' = ord
                /\ filters' = fs
                /\ limit' = lim
                /\ keyword_results' = out.keyword_results
                /\ raised' = out.raised
                /\ ret' = out.value
                /\ commands' = Append(commands, [neural_weight |-> nwa,
                                                 keyword_weight |-> kwa])
    /\ pc' = "done"
    /\ calls' = IF pc = "call" THEN calls ELSE calls + 1
    /\ UNCHANGED <<hybrid_enabled, max_results, min_score, bm25_index,
                   bm25_documents, bm25_repo_map, repositories, processor, op,
                   results, content, repo, prev>>

SpecCommand == InitCommand /\ [][SearchCommand]_vars

SpecMerge == InitMerge /\ [][MergeResults]_vars
SpecSnippet == InitSnippet /\ [][MergeResults]_vars
SpecFilter == InitFilter /\ [][ApplyFilters]_vars
SpecSearch == InitSearch /\ [][Search]_vars

\* The three operations of the search pipeline, each called repeatedly.
InitPipeline == InitMerge \/ InitFilter \/ InitSearch
NextPipeline == MergeResults \/ ApplyFilters \/ Search \/ CallAgain
SpecPipeline == InitPipeline /\ [][NextPipeline]_vars

SpecSliding == InitSliding /\ [][SlidingWindowChunking]_vars
SpecSemantic == InitSemantic /\ [][SemanticChunking]_vars
SpecReadme == InitReadme /\ [][ProcessReadme]_vars
SpecHybrid == InitHybrid /\ [][HybridChunking]_vars

\* The operations of the ContentProcessor, each called repeatedly.
InitChunker ==
    InitSliding \/ InitSemantic \/ InitHybrid \/ InitReadme \/ InitDescription
NextChunker ==
    \/ SlidingWindowChunking
    \/ SemanticChunking
    \/ HybridChunking
    \/ ProcessReadme
    \/ ProcessDescription
    \/ CallAgain
SpecChunker == InitChunker /\ [][NextChunker]_vars

Init == InitPipeline \/ InitChunker \/ InitIndex \/ InitCommand
Next == NextPipeline \/ NextChunker \/ NextIndex \/ SearchCommand
Spec == Init /\ [][Next]_vars

(***************************************************************************)
(* Properties of _merge_results, checked under SpecMerge.                  *)
(***************************************************************************)
Done(o) == pc = "done" /\ op = o

Max(a, b) == IF a > b THEN a ELSE b
Clamp(x, lo, hi) == Max(lo, Min(x, hi))

\* The positions of the hits of a repository in a result list.
HitsOf(list, repo_id) == { i \in 1..Len(list) : RepoId(list[i]) = repo_id }

\* The best score of a repository in a result list, 0 without a hit.
BestScore(list, repo_id) ==
    IF HitsOf(list, repo_id) = {} THEN 0
    ELSE CHOOSE x \in { list[i].score : i \in HitsOf(list, repo_id) } :
            \A i \in HitsOf(list, repo_id) : x >= list[i].score

InputRepos ==
    { RepoId(neural_results[i]) : i \in 1..Len(neural_results) }
        \cup { RepoId(keyword_results[i]) : i \in 1..Len(keyword_results) }

ReturnedRepos == { RepoId(ret[i]) : i \in 1..Len(ret) }

\* The combined score the specification gives a repository, in
\* ten-thousandths: neuralWeight * N + keywordWeight * clamp(k, 0, 10) / 10.
ExpectedKeyword(repo_id) ==
    Clamp(BestScore(keyword_results, repo_id), 0, 1000) \div 10
ExpectedScore(repo_id) ==
    neural_weight * BestScore(neural_results, repo_id)
        + keyword_weight * ExpectedKeyword(repo_id)

\* C1: _merge_results returns at most one result per repository id, the id of
\* that result is "merged-{repo_id}", and every returned repository is a
\* repository of one of the two input lists.
C1_OnePerRepository ==
    Done("merge") =>
        /\ \A i, j \in 1..Len(ret) : RepoId(ret[i]) = RepoId(ret[j]) => i = j
        /\ \A i \in 1..Len(ret) : ret[i].id = <<"merged", RepoId(ret[i])>>
        /\ ReturnedRepos \subseteq InputRepos

\* A repository with two neural hits and a keyword hit is returned, next to
\* another repository.
C1_Witness ==
    /\ Done("merge")
    /\ Len(ret) = 2
    /\ \E i \in 1..Len(ret) :
        /\ Cardinality(HitsOf(neural_results, RepoId(ret[i]))) = 2
        /\ HitsOf(keyword_results, RepoId(ret[i])) # {}

\* C2: every merged result has score = neural_weight * N + keyword_weight * K,
\* N its repository's best neural score (0 without a neural hit) and
\* K = clamp(best raw keyword score, 0, 10) / 10 (0 without a keyword hit),
\* and it reports neural_score = N and keyword_score = K.
C2_CombinedScore ==
    Done("merge") =>
        \A i \in 1..Len(ret) :
            /\ ret[i].neural_score = BestScore(neural_results, RepoId(ret[i]))
            /\ ret[i].keyword_score = ExpectedKeyword(RepoId(ret[i]))
            /\ ret[i].score = neural_weight * ret[i].neural_score
                                + keyword_weight * ret[i].keyword_score

\* A result whose neural score 0.9 is the better of two hits and whose
\* keyword score is 0.8, under unequal weights: 0.7 * 0.9 + 0.3 * 0.8 = 0.87.
C2_Witness ==
    /\ Done("merge")
    /\ neural_weight # keyword_weight
    /\ \E i \in 1..Len(ret) :
        /\ Cardinality(HitsOf(neural_results, RepoId(ret[i]))) = 2
        /\ ret[i].neural_score = 90
        /\ ret[i].keyword_score = 80
        /\ ret[i].score = 8700

\* C3: with non-negative weights, neural scores in [0, 1] and raw keyword
\* scores >= 0, every combined score is in [0, neural_weight + keyword_weight].
C3_ScoreBounds ==
    ( /\ Done("merge")
      /\ neural_weight >= 0 /\ keyword_weight >= 0
      /\ \A i \in 1..Len(neural_results) :
            neural_results[i].score >= 0 /\ neural_results[i].score <= 100
      /\ \A i \in 1..Len(keyword_results) : keyword_results[i].score >= 0 )
    => \A i \in 1..Len(ret) :
            /\ ret[i].score >= 0
            /\ ret[i].score <= (neural_weight + keyword_weight) * 100

\* A returned repository with a raw keyword score of 20.0, above the cap, and
\* a neural score of 0.9.
C3_Witness ==
    /\ Done("merge")
    /\ \E i \in 1..Len(ret) :
        /\ BestScore(keyword_results, RepoId(ret[i])) = 2000
        /\ BestScore(neural_results, RepoId(ret[i])) = 90

\* The end-to-end scenario: neural {repoA: 0.9}, keyword {repoA: 8.0}.
ScenarioInputs ==
    /\ neural_results = <<NeuralResult(1, 90, 1)>>
    /\ keyword_results = <<KeywordResult(1, 800, 1)>>
    /\ neural_weight = 70 /\ keyword_weight = 30

\* C4: _merge_results drops exactly the repositories whose combined score is
\* below min_score: every returned score is >= min_score, and every input
\* repository whose combined score is >= min_score is returned.  In the
\* scenario the score is 0.87: kept at min_score 0.2, dropped at 0.9.
C4_MinScoreDrop ==
    Done("merge") =>
        /\ \A i \in 1..Len(ret) : ret[i].score >= min_score * 100
        /\ \A repo_id \in InputRepos :
              ExpectedScore(repo_id) >= min_score * 100
                  => repo_id \in ReturnedRepos
        /\ (ScenarioInputs /\ min_score = 20)
              => (Len(ret) = 1 /\ ret[1].score = 8700)
        /\ (ScenarioInputs /\ min_score = 90) => ret = <<>>

\* One repository is kept and another one is dropped.
C4_Witness ==
    /\ Done("merge")
    /\ ret # <<>>
    /\ InputRepos \ ReturnedRepos # {}

\* The position of the first hit of a repository, the neural list first.
FirstSeen(repo_id) ==
    LET all == neural_results \o keyword_results
    IN  CHOOSE i \in HitsOf(all, repo_id) : \A j \in HitsOf(all, repo_id) : i <= j

\* C5: the merged list is sorted by non-increasing combined score, and
\* results of equal score are in the order of the first appearance of their
\* repositories (neural list first, then the keyword list).
C5_SortedStable ==
    Done("merge") =>
        \A i, j \in 1..Len(ret) :
            i < j =>
                /\ ret[i].score >= ret[j].score
                /\ ret[i].score = ret[j].score
                      => FirstSeen(RepoId(ret[i])) < FirstSeen(RepoId(ret[j]))

\* Two results of equal score, the first of a repository of the neural list
\* with the larger id, the second of a repository seen in the keyword list only.
C5_Witness ==
    /\ Done("merge")
    /\ \E i, j \in 1..Len(ret) :
        /\ i < j
        /\ ret[i].score = ret[j].score
        /\ RepoId(ret[i]) > RepoId(ret[j])
        /\ HitsOf(neural_results, RepoId(ret[i])) # {}
        /\ HitsOf(neural_results, RepoId(ret[j])) = {}

AsSet(seq) == { seq[i] : i \in 1..Len(seq) }

\* _merge_results with its two arguments exchanged.
SwappedMerge ==
    _merge_results(neural_weight, keyword_weight, min_score,
                   keyword_results, neural_results)

\* C6, as claimed: _merge_results(A, B) and _merge_results(B, A) contain the
\* same results (same repositories, scores and fields), ignoring order.
C6_Commutative ==
    Done("merge") => AsSet(ret) = AsSet(SwappedMerge)

\* C6, amended: with non-negative scores and weights and min_score <= 0,
\* _merge_results(A, B) and _merge_results(B, A) return the same repositories
\* under the same ids "merged-{repo_id}"; the scores and the other fields
\* differ, the first list being weighted by neural_weight and the second by
\* keyword_weight after the normalisation.
C6_SameRepositories ==
    (Done("merge") /\ min_score <= 0) =>
        { <<r.id, r.repository>> : r \in AsSet(ret) }
            = { <<r.id, r.repository>> : r \in AsSet(SwappedMerge) }

\* Both lists have hits, on different repositories, and the two merges differ.
C6_Witness ==
    /\ Done("merge")
    /\ min_score <= 0
    /\ neural_results # <<>> /\ keyword_results # <<>>
    /\ Len(ret) >= 2
    /\ AsSet(ret) # AsSet(SwappedMerge)

(***************************************************************************)
(* Properties of search, checked under SpecSearch.                         *)
(***************************************************************************)
\* C7: when hybrid_enabled is false or the keyword search returned nothing,
\* search returns the neural results unchanged (same records, same order, no
\* grouping, no min_score drop), only filtered and cut to the limit.
C7_Bypass ==
    (Done("search") /\ ~raised /\ (~hybrid_enabled \/ keyword_results = <<>>))
    => /\ ret = Truncate(IF filters = <<>> THEN neural_results
                         ELSE _apply_filters(neural_results, filters).value,
                         EffectiveLimit(limit, max_results))
       /\ filters = <<>>
            => ret = Truncate(neural_results, EffectiveLimit(limit, max_results))
       /\ \A i \in 1..Len(ret) : ret[i] \in AsSet(neural_results)

\* Hybrid search with an index whose scores are all below min_score: two hits
\* of one repository are both returned, the second with a score the merger
\* would have dropped.
C7_Witness ==
    /\ Done("search")
    /\ hybrid_enabled /\ bm25_index /\ keyword_results = <<>>
    /\ Len(ret) = 2
    /\ RepoId(ret[1]) = RepoId(ret[2])
    /\ neural_weight * ret[2].score < min_score * 100

(***************************************************************************)
(* Properties of _apply_filters, checked under SpecFilter.                 *)
(***************************************************************************)
\* A filter matches a repository, as the specification has it: the attribute
\* is there, and it equals the literal or lies within the given bounds.
ClaimMatches(record, f) ==
    /\ f.field \in DOMAIN record
    /\ IF f.value.is_dict
       THEN /\ "min" \in f.value.keys => record[f.field].n >= f.value.min
            /\ "max" \in f.value.keys => record[f.field].n <= f.value.max
       ELSE record[f.field] = f.value.lit

\* C8: _apply_filters keeps a result if and only if every field of the filter
\* specification matches the attribute of the repository.
C8_KeepsIffAllMatch ==
    (Done("filter") /\ ~raised) =>
        \A i \in 1..Len(results) :
            results[i] \in AsSet(ret)
                <=> \A k \in 1..Len(filters) :
                        ClaimMatches(results[i].repository, filters[k])

\* C8, on the repositories that have every field of the filter
\* specification: there the code keeps exactly the matching results.
C8_PresentFields ==
    (Done("filter") /\ ~raised) =>
        \A i \in 1..Len(results) :
            (\A k \in 1..Len(filters) :
                filters[k].field \in DOMAIN results[i].repository)
            => (results[i] \in AsSet(ret)
                  <=> \A k \in 1..Len(filters) :
                          ClaimMatches(results[i].repository, filters[k]))

\* C9: a result whose repository record lacks a field of the filter
\* specification is excluded.
C9_FailClosed ==
    (Done("filter") /\ ~raised) =>
        \A j \in 1..Len(ret), k \in 1..Len(filters) :
            filters[k].field \in DOMAIN ret[j].repository

RECURSIVE IsSubsequence(_, _)
IsSubsequence(s, t) ==
    IF s = <<>> THEN TRUE
    ELSE IF t = <<>> THEN FALSE
    ELSE IF Head(s) = Head(t) THEN IsSubsequence(Tail(s), Tail(t))
    ELSE IsSubsequence(s, Tail(t))

\* C10: the output of _apply_filters is a subsequence of its input: input
\* results only, in the order of the input.
C10_Subsequence ==
    (Done("filter") /\ ~raised) => IsSubsequence(ret, results)

\* Of three results the second is filtered out and the other two are kept.
C10_Witness ==
    /\ Done("filter") /\ ~raised
    /\ Len(results) = 3
    /\ ret = <<results[1], results[3]>>


(***************************************************************************)
(* Properties of the whole search pipeline, checked under SpecPipeline.    *)
(***************************************************************************)
\* The records the caller or the vector oracle handed to the call.
InputRecords == <<neural_results, results, filters, limit, scores>>

\* C11: search, _merge_results and _apply_filters leave the configuration of
\* the engine, its lexical index and the result records they were given
\* unchanged (the keyword list too, where it is an argument), and the same
\* call made again against unchanged collaborators returns the same result.
C11_SideEffectFree ==
    /\ [][ /\ engine' = engine
           /\ repositories' = repositories
           /\ InputRecords' = InputRecords
           /\ op = "merge" => keyword_results' = keyword_results ]_vars
    /\ [](pc = "done" /\ calls >= 2 => raised = prev.raised /\ ret = prev.ret)

\* A search with a limit below the number of matching results has returned
\* twice.
C11_Witness ==
    /\ Done("search") /\ calls = 2
    /\ hybrid_enabled /\ keyword_results # <<>>
    /\ ret # <<>> /\ Len(ret) < Len(neural_results)


\* C12: _merge_results and _apply_filters are total: whatever the result
\* lists and the filter specification, they return a list and do not raise.
C12_Total ==
    (pc = "done" /\ op \in {"merge", "filter"}) => ~raised

\* A range of the filter specification has a key other than min and max.
Malformed(fs) ==
    \E k \in 1..Len(fs) :
        fs[k].value.is_dict /\ ~(fs[k].value.keys \subseteq {"min", "max"})

\* C13: a filter specification with a range that uses an operator other than
\* min and max is rejected: the call reports it to the caller and lets no
\* result through.
C13_MalformedRejected ==
    (Done("filter") /\ Malformed(filters)) => raised


(***************************************************************************)
(* Properties of _sliding_window_chunking, checked under SpecSliding.      *)
(***************************************************************************)
\* The words of a chunk after the repository context.
Body(chunk) ==
    SubSeq(chunk.content, Len(RepositoryContext(chunk.repo_id)) + 1,
           Len(chunk.content))

FirstWords(words, k) == SubSeq(words, 1, Min(k, Len(words)))
LastWords(words, k) == SubSeq(words, Max(1, Len(words) - k + 1), Len(words))

\* C14: with chunk_overlap below max_chunk_size, the last chunk_overlap words
\* of the body of every emitted chunk are the first chunk_overlap words of
\* the body of the chunk emitted after it.
C14_Overlap ==
    (Done("_sliding_window_chunking") /\ chunk_overlap < max_chunk_size) =>
        /\ ~raised
        /\ \A i \in 1..(Len(ret) - 1) :
              LastWords(Body(ret[i]), chunk_overlap)
                  = FirstWords(Body(ret[i + 1]), chunk_overlap)

\* Three chunks or more were emitted with an overlap of two words or more.
C14_Witness ==
    /\ Done("_sliding_window_chunking")
    /\ chunk_overlap >= 2
    /\ Len(ret) >= 3


\* The words of the first chunk, then those of every later chunk after its
\* first k words.
RECURSIVE Reconstructed(_, _)
Reconstructed(chunks, k) ==
    IF chunks = <<>> THEN <<>>
    ELSE IF Len(chunks) = 1 THEN Body(chunks[1])
    ELSE Reconstructed(SubSeq(chunks, 1, Len(chunks) - 1), k)
            \o SubSeq(Body(chunks[Len(chunks)]), k + 1,
                      Len(Body(chunks[Len(chunks)])))

\* C15: the chunks of _sliding_window_chunking cover the text: the words of
\* the first chunk followed by the words of every later chunk after its
\* first chunk_overlap words are the words of the text, in order, whatever
\* the length of the text.
C15_Coverage ==
    Done("_sliding_window_chunking") =>
        /\ ~raised
        /\ Reconstructed(ret, chunk_overlap) = Split(content)

\* The same for the texts of at least chunk_overlap words and the empty
\* text, where the code does cover the text.
C15_LongEnough ==
    (Done("_sliding_window_chunking")
        /\ (Split(content) = <<>> \/ Len(Split(content)) >= chunk_overlap)) =>
        /\ ~raised
        /\ Reconstructed(ret, chunk_overlap) = Split(content)


(***************************************************************************)
(* Properties of _hybrid_chunking, checked under SpecHybrid.               *)
(***************************************************************************)
\* The positions of the header markers that start a line of a text.
HeaderLines(text) ==
    { p \in 1..Len(text) : text[p] = Hash /\ (p = 1 \/ text[p - 1] = NL) }

\* What _sliding_window_chunking makes of the text of the call.
SlidingChunks ==
    _sliding_window_chunking(content, repo, max_chunk_size, chunk_overlap).value

\* C16: for a text without headers _hybrid_chunking returns the chunks of the
\* sliding window, each tagged readme_hybrid, with section_index 0 and with
\* the window_index and the content it had; none is tagged readme_section or
\* readme_window.
C16_HybridFallback ==
    (Done("_hybrid_chunking") /\ HeaderLines(content) = {}) =>
        /\ ~raised
        /\ Len(ret) = Len(SlidingChunks)
        /\ \A i \in 1..Len(ret) :
              /\ ret[i].chunk_type = "readme_hybrid"
              /\ ret[i].section_index = 0
              /\ ret[i].window_index = SlidingChunks[i].window_index
              /\ ret[i].content = SlidingChunks[i].content

\* A text without headers was chunked into two windows or more.
C16_Witness ==
    /\ Done("_hybrid_chunking")
    /\ HeaderLines(content) = {}
    /\ Len(ret) >= 2


\* The sections of a text as the specification has them: a header line with
\* the lines up to the next header line, without the white space around it.
NthHeader(text, k) ==
    CHOOSE p \in HeaderLines(text) :
        Cardinality({ q \in HeaderLines(text) : q < p }) = k - 1
SectionEnd(text, p) ==
    IF \E q \in HeaderLines(text) : q > p
    THEN (CHOOSE q \in HeaderLines(text) :
            q > p /\ \A r \in HeaderLines(text) : r > p => q <= r) - 1
    ELSE Len(text)
SectionTexts(text) ==
    [k \in 1..Cardinality(HeaderLines(text)) |->
        Strip(SubSeq(text, NthHeader(text, k),
                     SectionEnd(text, NthHeader(text, k))))]

\* The chunks returned for the section at position i (counted from 0).
ChunksOfSection(i) ==
    SelectSeq(ret, LAMBDA c : "section_index" \in DOMAIN c /\ c.section_index = i)

\* The bodies of the windows of the sliding split of some words.
WindowBodies(words) ==
    LET windows == SlidingLoop(<<>>, words, repo, max_chunk_size, chunk_overlap, 0)
    IN  [j \in 1..Len(windows) |-> Body(windows[j])]

\* C17: _hybrid_chunking replaces a section of more than max_chunk_size words
\* by several readme_hybrid chunks, the windows of the sliding split of the
\* section: they carry the section's index, their window_index values are
\* pairwise distinct and no body has more than max_chunk_size words.
C17_HybridSplitting ==
    Done("_hybrid_chunking") =>
        \A k \in 1..Len(SectionTexts(content)) :
            Len(Split(SectionTexts(content)[k])) > max_chunk_size =>
                LET chunks == ChunksOfSection(k - 1)
                IN  /\ ~raised
                    /\ Len(chunks) >= 2
                    /\ \A j \in 1..Len(chunks) :
                          /\ chunks[j].chunk_type = "readme_hybrid"
                          /\ Len(Body(chunks[j])) <= max_chunk_size
                    /\ \A j1, j2 \in 1..Len(chunks) :
                          j1 # j2 =>
                              chunks[j1].window_index # chunks[j2].window_index
                    /\ [j \in 1..Len(chunks) |-> Body(chunks[j])]
                          = WindowBodies(Split(SectionTexts(content)[k]))

\* What the code does instead: a section is never split, whatever its size,
\* as long as max_chunk_size is at least the two words of the context.
C17_NeverSplit ==
    (Done("_hybrid_chunking") /\ max_chunk_size >= 2) =>
        \A i \in 1..Len(ret) :
            ret[i].chunk_type = "readme_hybrid" =>
                HeaderLines(content) = {} \/ ret[i].id = ForcedChunkId(repo)


(***************************************************************************)
(* Properties of the ContentProcessor, checked under SpecChunker.          *)
(***************************************************************************)
\* The hybrid strategy has chunked the whole text of the call.
HybridDone ==
    \/ Done("_hybrid_chunking")
    \/ /\ Done("process_readme")
       /\ chunk_strategy = "hybrid"
       /\ Truncated(content, max_readme_size) = content

\* C18: under the hybrid strategy a section of at most max_chunk_size words
\* is kept as it is: exactly one chunk is returned for it, tagged
\* readme_section, with the position of the section as section_index and the
\* words of the section as body; so a README of two such sections, Install
\* and Usage, yields two readme_section chunks with section_index 0 and 1.
C18_SmallSectionsKept ==
    HybridDone =>
        \A k \in 1..Len(SectionTexts(content)) :
            Len(Split(SectionTexts(content)[k])) <= max_chunk_size =>
                /\ ~raised
                /\ Len(ChunksOfSection(k - 1)) = 1
                /\ ChunksOfSection(k - 1)[1].chunk_type = "readme_section"
                /\ Body(ChunksOfSection(k - 1)[1]) = Split(SectionTexts(content)[k])

\* What the code does keep of a text with headers when it is handed to
\* _hybrid_chunking as it is: the number of the sections and their order.
C18_SectionCount ==
    (Done("_hybrid_chunking") /\ max_chunk_size >= 2
        /\ ~HasLargeTitle(content)) =>
        \A k \in 1..Len(SectionTexts(content)) :
            /\ Len(ChunksOfSection(k - 1)) = 1
            /\ ChunksOfSection(k - 1)[1].chunk_type = "readme_section"


\* A method that returns chunks has returned.
ChunksReturned ==
    /\ pc = "done" /\ ~raised
    /\ op \in {"process_readme", "process_description",
               "_sliding_window_chunking", "_semantic_chunking",
               "_hybrid_chunking"}

DescriptionHead == <<Word("Repository:"), FullName(repo), NL, Word("Description:")>>

Ids(chunks) == [i \in 1..Len(chunks) |-> chunks[i].id]

\* The ids that the repository and the indices of a chunk of a given type
\* allow; a hybrid chunk is a window of a text without headers, a window of
\* a section, or the chunk added for the title "Large Test Repository".
PositionalIds(chunk) ==
    CASE chunk.chunk_type = "readme_section" ->
            { <<IntVal(repo), IntVal(chunk.section_index)>> }
      [] chunk.chunk_type = "readme_window" ->
            { <<IntVal(repo), IntVal(chunk.window_index)>> }
      [] chunk.chunk_type = "readme_hybrid" ->
            { <<IntVal(repo), IntVal(chunk.window_index)>>,
              <<IntVal(repo), IntVal(chunk.section_index),
                IntVal(chunk.window_index)>>,
              <<IntVal(repo), IntVal(0), StrVal("hybrid")>> }
      [] chunk.chunk_type = "description" ->
            { <<IntVal(repo), StrVal("description")>> }

\* C20: chunking the same text again for the same repository with the same
\* configuration returns the same sequence of chunk ids, and every id is
\* made of the repository id and the indices of the chunk (or a literal).
C20_DeterministicIds ==
    ChunksReturned =>
        /\ calls >= 2 => (~prev.raised /\ Ids(ret) = Ids(prev.ret))
        /\ \A i \in 1..Len(ret) : ret[i].id \in PositionalIds(ret[i])

\* process_readme has chunked a README a second time, with the hybrid
\* strategy, into two chunks or more.
C20_Witness ==
    /\ Done("process_readme") /\ calls = 2
    /\ chunk_strategy = "hybrid"
    /\ Len(ret) >= 2

(***************************************************************************)
(* Properties of the lexical index, checked under SpecIndex.               *)
(***************************************************************************)
\* The most recent build has returned and the store is as that build saw it.
Built == pc = "done" /\ op \in {"_initialize_bm25_index", "_keyword_search"}

\* No repository of the store has a README or a description.
NoDocuments ==
    \A repo_id \in repositories :
        Readme(repo_id) = <<>> /\ Description(repo_id) = <<>>

\* C21: after any sequence of index builds, when the most recent build found
\* no document the index is absent (bm25_index None, bm25_documents and
\* bm25_repo_map empty), the build did not raise and a keyword query
\* returns the empty list without raising.
C21_EmptyBuildLeavesNoIndex ==
    (Built /\ NoDocuments) =>
        /\ ~bm25_index
        /\ bm25_documents = <<>>
        /\ bm25_repo_map = <<>>
        /\ ~raised
        /\ (op = "_keyword_search" => ret = <<>>)

(***************************************************************************)
(* Properties of process_readme, checked under SpecReadme.                 *)
(***************************************************************************)
\* The README is longer than max_readme_size.
Oversized == Len(Chars(content)) > max_readme_size

\* The longest beginning of the text that has at most n characters.
Prefix(text, n) ==
    LET fits == { m \in 0..Len(text) : Len(Chars(SubSeq(text, 1, m))) <= n }
    IN  SubSeq(text, 1, CHOOSE m \in fits : \A x \in fits : x <= m)

\* What the configured strategy makes of a cleaned text.
ChunksOf(text) ==
    IF chunk_strategy = "semantic"
    THEN _semantic_chunking(text, repo, max_chunk_size, chunk_overlap)
    ELSE IF chunk_strategy = "sliding"
    THEN _sliding_window_chunking(text, repo, max_chunk_size, chunk_overlap)
    ELSE _hybrid_chunking(text, repo, max_chunk_size, chunk_overlap)

\* C22: process_readme does not raise on an oversized README: it returns the
\* chunks of the first max_readme_size characters, cleaned; a README within
\* the limit is chunked in full.
C22_Truncation ==
    Done("process_readme") =>
        /\ ~raised
        /\ ret = ChunksOf(_clean_content(IF Oversized
                                         THEN Prefix(content, max_readme_size)
                                         ELSE content)).value

\* An oversized README was processed, and its chunks are not those of the
\* whole README.
C22_Witness ==
    /\ Done("process_readme")
    /\ Oversized
    /\ ret # <<>>
    /\ ret # ChunksOf(_clean_content(content)).value

(***************************************************************************)
(* The hits the merger retains, checked under SpecMerge.                   *)
(***************************************************************************)
\* The first hit of a repository that has the repository's best score.
FirstBest(list, repo_id) ==
    LET best == { i \in HitsOf(list, repo_id) :
                    list[i].score = BestScore(list, repo_id) }
    IN  list[CHOOSE i \in best : \A j \in best : i <= j]

\* The list the snippet of a merged result was taken from.
SnippetList(r) == IF r.chunk_type = "bm25" THEN keyword_results ELSE neural_results

\* C23: a merged result carries the highest neural score and the highest
\* keyword score (normalised) of its repository's hits, in whatever order
\* the hits come; its snippet is the one of the first hit that has the
\* highest score of its list: a strictly higher later hit replaces score and
\* snippet, an equal one does not.
C23_BestHitRetained ==
    Done("merge") =>
        \A i \in 1..Len(ret) :
            /\ ret[i].neural_score = BestScore(neural_results, RepoId(ret[i]))
            /\ ret[i].keyword_score = ExpectedKeyword(RepoId(ret[i]))
            /\ HitsOf(SnippetList(ret[i]), RepoId(ret[i])) # {}
            /\ ret[i].text = FirstBest(SnippetList(ret[i]), RepoId(ret[i])).text

\* A repository whose second neural hit is strictly better was returned with
\* the second hit's snippet, and another whose two neural hits have equal
\* scores with the first hit's.
C23_Witness ==
    /\ Done("merge")
    /\ \E i \in 1..Len(ret) :
          /\ HitsOf(neural_results, RepoId(ret[i])) = {1, 2}
          /\ neural_results[1].score < neural_results[2].score
          /\ ret[i].text = neural_results[2].text
    /\ \E i \in 1..Len(ret) :
          /\ HitsOf(keyword_results, RepoId(ret[i])) = {1, 2}
          /\ keyword_results[1].score = keyword_results[2].score
          /\ ret[i].text = keyword_results[1].text

\* C24: a merged result whose neural score is at least 0.5 has the text and
\* the chunk_type of its repository's best neural hit; a result has a
\* keyword snippet (chunk_type "bm25") only when its neural score is below
\* 0.5, which it is for a repository without a neural hit.
C24_SnippetSelection ==
    Done("merge") =>
        \A i \in 1..Len(ret) :
            LET repo_id == RepoId(ret[i])
            IN  /\ ret[i].neural_score >= SnippetThreshold =>
                      /\ HitsOf(neural_results, repo_id) # {}
                      /\ ret[i].text = FirstBest(neural_results, repo_id).text
                      /\ ret[i].chunk_type =
                             FirstBest(neural_results, repo_id).chunk_type
                /\ ret[i].chunk_type = "bm25" =>
                      /\ ret[i].neural_score < SnippetThreshold
                      /\ HitsOf(keyword_results, repo_id) # {}
                      /\ ret[i].text \in
                             { keyword_results[k].text :
                                 k \in HitsOf(keyword_results, repo_id) }
                /\ HitsOf(neural_results, repo_id) = {} =>
                      ret[i].chunk_type = "bm25"

\* Two repositories were returned, each with a keyword hit: one with a
\* neural score of exactly 0.5 and the neural snippet, one with a neural
\* hit below 0.5 and the keyword snippet.
C24_Witness ==
    /\ Done("merge")
    /\ \E i, j \in 1..Len(ret) :
          /\ HitsOf(keyword_results, RepoId(ret[i])) # {}
          /\ ret[i].neural_score = SnippetThreshold
          /\ ret[i].chunk_type # "bm25"
          /\ HitsOf(neural_results, RepoId(ret[j])) # {}
          /\ ret[j].neural_score < SnippetThreshold
          /\ ret[j].chunk_type = "bm25"

(***************************************************************************)
(* The stages of search, checked under SpecSearch.                         *)
(***************************************************************************)
\* The list the merge stage hands on: the merged list, or the neural
\* results when the merger is bypassed.
MergeStage ==
    IF hybrid_enabled /\ keyword_results # <<>>
    THEN _merge_results(neural_weight, keyword_weight, min_score,
                        neural_results, keyword_results)
    ELSE neural_results

\* The list the filter stage hands on.
FilterStage ==
    IF filters = <<>> THEN MergeStage
    ELSE _apply_filters(MergeStage, filters).value

\* C25: search merges, then filters, then truncates: it returns the first
\* limit entries of the filtered merged list (limit is max_results when not
\* given), so never more than limit entries, and every entry it leaves out
\* comes after every entry it keeps.
C25_MergeFilterTruncate ==
    (Done("search") /\ ~raised) =>
        /\ Len(ret) = Min(EffectiveLimit(limit, max_results), Len(FilterStage))
        /\ Len(ret) <= EffectiveLimit(limit, max_results)
        /\ \A i \in 1..Len(ret) : ret[i] = FilterStage[i]

\* The filters removed the first entry of the merge stage and the limit cut
\* the rest: cutting before filtering would have returned another list.
C25_Witness ==
    /\ Done("search") /\ ~raised
    /\ filters # <<>>
    /\ Len(MergeStage) > EffectiveLimit(limit, max_results)
    /\ ret # <<>>
    /\ ret[1] # MergeStage[1]

(***************************************************************************)
(* The windows of _sliding_window_chunking, checked under SpecSliding.     *)
(***************************************************************************)
\* The words of the window that starts at an offset of the text.
WindowAt(offset) ==
    SubSeq(Split(content), offset + 1,
           Min(offset + max_chunk_size, Len(Split(content))))

\* The numbers j of the start offsets j * (S - k) below the number of words.
Offsets ==
    { j \in 0..Len(Split(content)) :
        j * (max_chunk_size - chunk_overlap) < Len(Split(content)) }

\* Those of them whose window has chunk_overlap words or more.
Emitted ==
    { j \in Offsets :
        Len(WindowAt(j * (max_chunk_size - chunk_overlap))) >= chunk_overlap }

\* C26: with chunk_overlap below max_chunk_size, sliding chunking emits one
\* readme_window chunk for every start offset 0, S-k, 2(S-k), ... below the
\* number of words whose window of up to S words has k words or more, and
\* none for the others; the j-th chunk emitted (from 0) has window_index j
\* and holds the window at offset j(S-k).
C26_Windows ==
    (Done("_sliding_window_chunking") /\ chunk_overlap < max_chunk_size) =>
        /\ ~raised
        /\ Len(ret) = Cardinality(Emitted)
        /\ \A j \in 1..Len(ret) :
              /\ ret[j].chunk_type = "readme_window"
              /\ ret[j].window_index = j - 1
              /\ (j - 1) \in Emitted
              /\ Body(ret[j]) =
                     WindowAt((j - 1) * (max_chunk_size - chunk_overlap))

\* Two windows or more were emitted and one was dropped.
C26_Witness ==
    /\ Done("_sliding_window_chunking")
    /\ chunk_overlap < max_chunk_size
    /\ Len(ret) >= 2
    /\ Emitted # Offsets

(***************************************************************************)
(* Properties of _semantic_chunking, checked under SpecSemantic.           *)
(***************************************************************************)
\* C27: for a text with headers _semantic_chunking returns one readme_section
\* chunk per section (a header line and its body up to the next header), in
\* document order, with section_index the position of the section and
\* content the repository context followed by the text of the section; for
\* a text without headers it returns the readme_window chunks of the
\* sliding window.
C27_SemanticSections ==
    Done("_semantic_chunking") =>
        /\ ~raised
        /\ IF HeaderLines(content) = {}
           THEN /\ ret = SlidingChunks
                /\ \A i \in 1..Len(ret) : ret[i].chunk_type = "readme_window"
           ELSE /\ Len(ret) = Len(SectionTexts(content))
                /\ \A i \in 1..Len(ret) :
                      /\ ret[i].chunk_type = "readme_section"
                      /\ ret[i].section_index = i - 1
                      /\ ret[i].content =
                             RepositoryContext(repo) \o SectionTexts(content)[i]

\* What does hold of a text with headers: one readme_section chunk per
\* section, in order, whose content is the repository context alone.
C27_EmptySections ==
    (Done("_semantic_chunking") /\ HeaderLines(content) # {}) =>
        /\ Len(ret) = Len(SectionTexts(content))
        /\ \A i \in 1..Len(ret) :
              /\ ret[i].chunk_type = "readme_section"
              /\ ret[i].section_index = i - 1
              /\ ret[i].content = RepositoryContext(repo)

(***************************************************************************)
(* The ids of the chunks of one repository, checked under SpecReadme.      *)
(***************************************************************************)
\* A chunking method has returned the chunks of a README.
ReadmeChunked ==
    /\ pc = "done" /\ ~raised
    /\ op \in {"process_readme", "_sliding_window_chunking",
               "_semantic_chunking", "_hybrid_chunking"}

\* The chunks of the repository: those of its README and the one of its
\* description.
RepositoryChunks == ret \o process_description(repo)

\* C28: among the chunks one call makes of a repository's README, under any
\* strategy, together with the chunk of the repository's description, no
\* two chunks have the same id.
C28_UniqueIds ==
    ReadmeChunked =>
        \A i, j \in 1..Len(RepositoryChunks) :
            i # j => RepositoryChunks[i].id # RepositoryChunks[j].id

\* process_readme made, with the hybrid strategy, a section chunk and the
\* chunk added for the title "Large Test Repository", and the repository has
\* a description chunk.
C28_Witness ==
    /\ Done("process_readme") /\ ~raised
    /\ chunk_strategy = "hybrid"
    /\ \E i, j \in 1..Len(ret) :
          /\ ret[i].chunk_type = "readme_section"
          /\ ret[j].id = ForcedChunkId(repo)
    /\ Len(RepositoryChunks) = Len(ret) + 1

(***************************************************************************)
(* Properties of _keyword_search, checked under SpecIndex.                 *)
(***************************************************************************)
\* The document a keyword result was made of: the idx of "bm25-{repo_id}-{idx}".
DocumentOf(result) == result.id[3]

\* The documents at the top limit places of the scores' order.
TopDocuments == { order[k] : k \in 1..Min(limit.n, Len(order)) }

\* C29: _keyword_search returns at most limit results, in non-increasing
\* score order; each has a score of min_score or more, chunk_type "bm25"
\* and the repository that owns its document; and every document among the
\* top limit by score that scores min_score or more and whose repository is
\* stored has a result.
C29_KeywordResults ==
    Done("_keyword_search") =>
        /\ ~raised
        /\ Len(ret) <= limit.n
        /\ \A i \in 1..(Len(ret) - 1) : ret[i].score >= ret[i + 1].score
        /\ \A i \in 1..Len(ret) :
              /\ ret[i].score >= min_score
              /\ ret[i].chunk_type = "bm25"
              /\ DocumentOf(ret[i]) \in 1..Len(bm25_documents)
              /\ ret[i].score = scores[DocumentOf(ret[i])]
              /\ ret[i].repository = Store(bm25_repo_map[DocumentOf(ret[i])])
        /\ \A idx \in TopDocuments :
              (scores[idx] >= min_score /\ bm25_repo_map[idx] \in repositories)
                  => \E i \in 1..Len(ret) : DocumentOf(ret[i]) = idx

\* Two results of different scores were returned for a limit of two, and a
\* third document that scores min_score or more was cut off.
C29_Witness ==
    /\ Done("_keyword_search")
    /\ limit.n = 2 /\ Len(ret) = 2
    /\ \E idx \in 1..Len(scores) :
          /\ idx \notin TopDocuments
          /\ scores[idx] >= min_score
    /\ ret[1].score > ret[2].score

(***************************************************************************)
(* Properties of search_command, checked under SpecCommand.                *)
(***************************************************************************)
\* The weight most recently given by a command, the configured one if no
\* command gave one.
RECURSIVE LastGiven(_, _, _)
LastGiven(history, name, configured) ==
    IF history = <<>> THEN configured
    ELSE IF history[Len(history)][name].given
    THEN history[Len(history)][name].n
    ELSE LastGiven(SubSeq(history, 1, Len(history) - 1), name, configured)

LastNeuralWeight ==
    LastGiven(commands, "neural_weight", CommandConfig.neural_weight)
LastKeywordWeight ==
    LastGiven(commands, "keyword_weight", CommandConfig.keyword_weight)

\* C30: the weights given to search_command stay on the engine: after every
\* command the engine holds, for each weight, the value most recently given
\* by this or an earlier command (the configured one if none was given),
\* and the merged results of the command are scored with these weights.
C30_WeightsPersist ==
    Done("search_command") =>
        /\ neural_weight = LastNeuralWeight
        /\ keyword_weight = LastKeywordWeight
        /\ (~raised /\ keyword_results # <<>>) =>
              \A i \in 1..Len(ret) :
                  ret[i].score = LastNeuralWeight * ret[i].neural_score
                                   + LastKeywordWeight * ret[i].keyword_score

\* A command that was given no weight returned a merged result scored with
\* the weights of the command before it, which are not the configured ones.
C30_Witness ==
    /\ Done("search_command") /\ Len(commands) = 2
    /\ commands[1].neural_weight.given /\ commands[1].keyword_weight.given
    /\ ~commands[2].neural_weight.given /\ ~commands[2].keyword_weight.given
    /\ keyword_results # <<>> /\ ret # <<>>
    /\ ret[1].neural_score > 0 /\ ret[1].keyword_score > 0
    /\ ret[1].score #
          CombinedScore(CommandConfig.neural_weight,
                        CommandConfig.keyword_weight,
                        ret[1].neural_score, ret[1].keyword_score)

=============================================================================
